---------------------------- MODULE Spec2Model ----------------------------
(***************************************************************************)
(* A model of the qwant engine adapter (src/src/engines/qwant.rs):         *)
(* construction of the adapter (Qwant::new) and the asynchronous query     *)
(* operation (SearchEngine::results for Qwant), split at its one           *)
(* suspension point, the upstream fetch.                                   *)
(*                                                                         *)
(* Text is a sequence of one-character strings, so that formatting,        *)
(* trimming and header validation are computed character by character.     *)
(* Selector strings are kept as atoms: only their identity and whether     *)
(* the selector grammar accepts them matter here.                          *)
(***************************************************************************)
EXTENDS Integers, Sequences, FiniteSets, Bags, TLC

(***************************************************************************)
(* Bounds of the model.                                                    *)
(***************************************************************************)
\* largest small page number tried (0..MaxPage, and one multi-digit page)
MaxPage == 2
\* longest fetched document, in elements
MaxNodes == 2
\* number of concurrent results calls in the concurrent specification
MaxCalls == 2

(***************************************************************************)
(* Rust values.                                                            *)
(***************************************************************************)
\* Option<T>: None, or Some(x)
None == << >>
Some(x) == << x >>

\* Result<T, EngineError>
Ok(v) == [ok |-> TRUE, value |-> v]
Err(e) == [ok |-> FALSE, error |-> e]

\* char::is_whitespace, on the characters of the model
WhiteSpace == {" ", "\t", "\n"}

\* str::trim: the text without its leading and trailing whitespace
RECURSIVE TrimStart(_)
TrimStart(s) ==
    IF s # << >> /\ Head(s) \in WhiteSpace THEN TrimStart(Tail(s)) ELSE s

RECURSIVE TrimEnd(_)
TrimEnd(s) ==
    IF s # << >> /\ s[Len(s)] \in WhiteSpace
    THEN TrimEnd(SubSeq(s, 1, Len(s) - 1))
    ELSE s

Trim(s) == TrimEnd(TrimStart(s))

\* Display for u32: the decimal digits of n, most significant first
DigitChar == <<"0", "1", "2", "3", "4", "5", "6", "7", "8", "9">>

RECURSIVE Decimal(_)
Decimal(n) ==
    IF n < 10
    THEN << DigitChar[n + 1] >>
    ELSE Decimal(n \div 10) \o << DigitChar[(n % 10) + 1] >>

(***************************************************************************)
(* The adapter's configuration: Qwant::new, lines 29-39.                   *)
(***************************************************************************)
\* the three distinct selector strings Qwant::new passes
SelResults == "._2NDle nt3hI"
SelTitleUrl == "._35zId _3A7p7 RMB_d eoseI>a"
SelDesc == "._2-LMx XqdKF _1UMq0 _29nLp _3PXjk>span"

\* the five arguments of SearchResultParser::new, in the order given
QwantSelectors == << SelResults, SelResults, SelTitleUrl, SelTitleUrl, SelDesc >>

Selectors == {QwantSelectors[i] : i \in 1..5}


(***************************************************************************)
(* The Result Extractor (SearchResultParser).  Its source file is not      *)
(* among the sources; it is modelled from the specification, sections 3    *)
(* and 4.1.                                                                *)
(***************************************************************************)
\* new(title_container, no_result_container, title, link, desc): all five
\* selectors are parsed eagerly; any one failing fails the construction.
\* `accepted` is the set of selector strings the selector grammar accepts.
SearchResultParserNew(args, accepted) ==
    IF \A i \in 1..5 : args[i] \in accepted
    THEN Ok([results |-> args[1], no_result |-> args[2],
             result_title |-> args[3], result_url |-> args[4],
             result_desc |-> args[5]])
    ELSE Err("UnexpectedError")

\* A parsed document, seen through selectors: its elements in document
\* order, each with the set of selectors it matches from the document root
\* (matches) and, per selector, the inner HTML of its descendants matching
\* that selector, in document order (sub).
Select(document, selector) ==
    SelectSeq(document, LAMBDA e : selector \in e.matches)

SelectIn(element, selector) == element.sub[selector]

\* Iterator::next
First(s) == IF s = << >> THEN None ELSE Some(Head(s))

\* detect_no_results: the elements matching the no-result-marker selector
parse_for_no_results(parser, document) == Select(document, parser.no_result)

\* extract, first half: per title container the located (title, link,
\* description) triple, or None when one of the three is missing
LocateTriple(parser, element) ==
    LET title == First(SelectIn(element, parser.result_title))
        url == First(SelectIn(element, parser.result_url))
        desc == First(SelectIn(element, parser.result_desc))
    IN  IF title # None /\ url # None /\ desc # None
        THEN Some(<< title[1], url[1], desc[1] >>)
        ELSE None

LocateTriples(parser, document) ==
    LET anchors == Select(document, parser.results)
    IN  [i \in 1..Len(anchors) |-> LocateTriple(parser, anchors[i])]

\* extract, second half: the records are inserted in order into a mapping
\* keyed by url; None records are skipped, a later record replaces an
\* earlier one under the same key
Insert(map, key, value) ==
    [k \in (DOMAIN map) \cup {key} |-> IF k = key THEN value ELSE map[k]]

CollectByUrl(records) ==
    LET upTo[i \in 0..Len(records)] ==
            IF i = 0 THEN << >>
            ELSE IF records[i] = None THEN upTo[i - 1]
            ELSE Insert(upTo[i - 1], records[i][1].url, records[i][1])
    IN  Ok(upTo[Len(records)])

\* SearchResult::new(title, url, description, engines)
SearchResultNew(title, url, description, engines) ==
    [title |-> title, url |-> url, description |-> description,
     engine |-> engines]

(***************************************************************************)
(* Qwant::new, lines 29-39.                                                *)
(***************************************************************************)
\* no adapter instance
NoInstance == [instance |-> FALSE]

\* a variant that keeps the instance whatever the parser's construction
\* returned
QwantNewUnchecked(accepted) ==
    Ok([instance |-> TRUE,
        parser |-> SearchResultParserNew(QwantSelectors, Selectors).value])

\* Ok(Self { parser: SearchResultParser::new(...)? })
QwantNew(accepted) ==
    LET made == SearchResultParserNew(QwantSelectors, accepted)
    IN  IF made.ok THEN Ok([instance |-> TRUE, parser |-> made.value])
        ELSE Err(made.error)

(***************************************************************************)
(* SearchEngine::results for Qwant, lines 58-110, as pure steps.           *)
(***************************************************************************)
UrlPrefix == <<"h","t","t","p","s",":","/","/","w","w","w",".","q","w","a","n","t",".","c","o","m","/","?","q","=">>
UrlPageParam == <<"&","s","=">>

\* a variant that normalises page 1 only, and passes page 0 through
ResultsUrlZeroVerbatim(query, page) ==
    IF page = 1
    THEN UrlPrefix \o query \o UrlPageParam \o <<"1">>
    ELSE UrlPrefix \o query \o UrlPageParam \o Decimal(page)

\* lines 68-75: the request url
ResultsUrl(query, page) ==
    IF page = 1 \/ page = 0
    THEN UrlPrefix \o query \o UrlPageParam \o <<"1">>
    ELSE UrlPrefix \o query \o UrlPageParam \o Decimal(page)

KeyUserAgent == <<"U","S","E","R","_","A","G","E","N","T">>
KeyReferer == <<"R","E","F","E","R","E","R">>
KeyContentType == <<"C","O","N","T","E","N","T","_","T","Y","P","E">>
KeyCookie == <<"C","O","O","K","I","E">>
ValueReferer == <<"h","t","t","p","s",":","/","/","g","o","o","g","l","e",".","c","o","m","/">>
ValueContentType == <<"a","p","p","l","i","c","a","t","i","o","n","/","x","-","w","w","w","-","f","o","r","m","-","u","r","l","e","n","c","o","d","e","d">>
ValueCookie == <<"a","b","_","t","e","s","t","_","g","r","o","u","p","=","1",";"," ","h","o","m","e","=","d","a","i","l","y">>

\* a variant that leaves the cookie out
ResultsHeaderSourceNoCookie(user_agent) ==
    Insert(Insert(Insert(<< >>,
        KeyUserAgent, user_agent),
        KeyReferer, ValueReferer),
        KeyContentType, ValueContentType)

\* lines 78-89: HashMap::from([...]), a map from key to value
ResultsHeaderSource(user_agent) ==
    Insert(Insert(Insert(Insert(<< >>,
        KeyUserAgent, user_agent),
        KeyReferer, ValueReferer),
        KeyContentType, ValueContentType),
        KeyCookie, ValueCookie)

\* HeaderName::try_from: a header name is a token, stored in lower case
UpperCase == <<"A","B","C","D","E","F","G","H","I","J","K","L","M","N","O","P","Q","R","S","T","U","V","W","X","Y","Z">>
LowerCase == <<"a","b","c","d","e","f","g","h","i","j","k","l","m","n","o","p","q","r","s","t","u","v","w","x","y","z">>
TokenOther == {"_", "-", "0", "1", "2", "3", "4", "5", "6", "7", "8", "9"}

TokenChars ==
    {UpperCase[i] : i \in 1..26} \cup {LowerCase[i] : i \in 1..26} \cup TokenOther

LowerOf ==
    [c \in {UpperCase[i] : i \in 1..26} |->
        LowerCase[CHOOSE i \in 1..26 : UpperCase[i] = c]]

ToLower(c) == IF c \in DOMAIN LowerOf THEN LowerOf[c] ELSE c

ValidHeaderName(key) ==
    /\ key # << >>
    /\ \A i \in 1..Len(key) : key[i] \in TokenChars

HeaderNameOf(key) == [i \in 1..Len(key) |-> ToLower(key[i])]

\* HeaderValue::try_from: no control character other than tab
ValidHeaderValue(value) == \A i \in 1..Len(value) : value[i] # "\n"

\* HeaderMap::try_from(&HashMap): every entry is converted and appended;
\* the header map is a multimap, here the bag of its (name, value) entries
HeaderMapTryFrom(source) ==
    IF \A k \in DOMAIN source : ValidHeaderName(k) /\ ValidHeaderValue(source[k])
    THEN LET entries == {<< HeaderNameOf(k), source[k] >> : k \in DOMAIN source}
         IN  Ok([e \in entries |->
                   Cardinality({k \in DOMAIN source :
                                  << HeaderNameOf(k), source[k] >> = e})])
    ELSE Err("HeaderError")

\* lines 78-90: the header map, or UnexpectedError
ResultsHeaders(user_agent) ==
    LET made == HeaderMapTryFrom(ResultsHeaderSource(user_agent))
    IN  IF made.ok THEN made ELSE Err("UnexpectedError")

\* lines 102-109: the closure given to parse_for_results
QwantEngineName == <<"q","w","a","n","t">>

ResultsBuilder(title, url, desc) ==
    Some(SearchResultNew(Trim(title), Trim(url), Trim(desc), {QwantEngineName}))

\* lines 101-110: parse_for_results with the closure above
ResultsScrape(parser, document) ==
    LET triples == LocateTriples(parser, document)
        built == [i \in 1..Len(triples) |->
                    IF triples[i] = None THEN None
                    ELSE ResultsBuilder(triples[i][1][1], triples[i][1][2],
                                        triples[i][1][3])]
    IN  CollectByUrl(built)

\* a variant that never looks for the no-result marker
ResultsNoResultsSkipped(parser, document) == FALSE

\* lines 96-98: is the no-result marker present
ResultsNoResults(parser, document) ==
    First(parse_for_no_results(parser, document)) # None

\* a variant that turns a failed fetch into an empty mapping
ResultsAfterFetchSwallow(self, answer) ==
    IF ~answer.ok THEN Ok(<< >>)
    ELSE IF First(parse_for_no_results(self.parser, answer.value)) # None
         THEN Err("EmptyResultSet")
         ELSE ResultsScrape(self.parser, answer.value)

\* lines 92-110: what results returns once the fetch has answered
ResultsAfterFetch(self, answer) ==
    IF ~answer.ok THEN Err(answer.error)
    ELSE IF ResultsNoResults(self.parser, answer.value)
         THEN Err("EmptyResultSet")
         ELSE ResultsScrape(self.parser, answer.value)

(***************************************************************************)
(* The inputs tried.                                                       *)
(***************************************************************************)
SeqUpTo(S, n) == UNION {[1..k -> S] : k \in 0..n}

Queries == { <<"a">>, <<"a", " ", "b">> }
Pages == (0..MaxPage) \cup {MaxPage + 1040}
UserAgents == { <<"M", "z", "/", "5">>, <<"c", "\t", "8">>, <<"x", "\n">> }
SafeSearchLevels == {0, 2}

Container(links, descs) ==
    [matches |-> {SelResults},
     sub |-> [s \in Selectors |->
                IF s = SelTitleUrl THEN links
                ELSE IF s = SelDesc THEN descs ELSE << >>]]

\* an element no configured selector matches
OtherMarkup == [matches |-> {}, sub |-> [s \in Selectors |-> << >>]]

LinkTexts == { <<"u">>, <<" ", "u", "\n">>, <<"v", " ">>, <<" ">> }
DescTexts == { <<"d">>, <<" ", "e">> }

Elements ==
    {OtherMarkup} \cup
    {Container(l, d) : l \in SeqUpTo(LinkTexts, 1), d \in SeqUpTo(DescTexts, 1)}

Documents == SeqUpTo(Elements, MaxNodes)

\* what the transport may answer
Answers == {Err("RequestError")} \cup {Ok(d) : d \in Documents}

\* the smaller inputs of the concurrent specification
ConcurrentPages == {1, 2}
ConcurrentUserAgents == { <<"M", "z", "/", "5">>, <<"x", "\n">> }
ConcurrentAnswers ==
    { Err("RequestError"), Ok(<< >>), Ok(<< OtherMarkup >>),
      Ok(<< Container(<< <<"u">> >>, << <<"d">> >>) >>) }

Calls == 1..MaxCalls

(***************************************************************************)
(* The state.                                                              *)
(***************************************************************************)
VARIABLES
    accepted,     \* the selector strings the selector grammar accepts
    constructed,  \* None while constructing, then Some(what Qwant::new returned)
    qwant,        \* the adapter instance, or NoInstance
    pc,           \* per call: "idle", "fetching", "fetched", "done"
    args,         \* per call: the arguments of results
    request,      \* per call: None, or Some(url and header map handed to the fetch)
    fetches,      \* per call: how many times the fetch was invoked
    fetched,      \* per call: None, or Some(what the fetch returned)
    parsed,       \* per call: whether Html::parse_document ran
    outcome       \* per call: None, or Some(what results returned)

vars == << accepted, constructed, qwant, pc, args, request, fetches, fetched,
           parsed, outcome >>

callVars == << pc, args, request, fetches, fetched, parsed, outcome >>

\* Whether a selector string parses is decided by the selector grammar of
\* the HTML library, outside the repository: the model lets each of the
\* strings go either way.
Init ==
    /\ accepted \in SUBSET Selectors
    /\ constructed = None
    /\ qwant = NoInstance
    /\ pc = [c \in Calls |-> "idle"]
    /\ args = [c \in Calls |-> None]
    /\ request = [c \in Calls |-> None]
    /\ fetches = [c \in Calls |-> 0]
    /\ fetched = [c \in Calls |-> None]
    /\ parsed = [c \in Calls |-> FALSE]
    /\ outcome = [c \in Calls |-> None]

\* Qwant::new, lines 29-39
New ==
    /\ constructed = None
    /\ constructed' = Some(QwantNew(accepted))
    /\ qwant' = IF QwantNew(accepted).ok THEN QwantNew(accepted).value
                ELSE NoInstance
    /\ UNCHANGED << accepted, callVars >>

\* results, lines 58-93: from the call to the suspension at the fetch
ResultsBegin(c, query, page, user_agent, safe_search) ==
    /\ qwant.instance
    /\ pc[c] = "idle"
    /\ args' = [args EXCEPT ![c] =
                  Some([query |-> query, page |-> page,
                        user_agent |-> user_agent, safe_search |-> safe_search])]
    /\ LET url == ResultsUrl(query, page)
           header_map == ResultsHeaders(user_agent)
       IN  IF header_map.ok
           THEN /\ request' = [request EXCEPT ![c] =
                      Some([url |-> url, header_map |-> header_map.value])]
                /\ fetches' = [fetches EXCEPT ![c] = @ + 1]
                /\ pc' = [pc EXCEPT ![c] = "fetching"]
                /\ UNCHANGED outcome
           ELSE /\ outcome' = [outcome EXCEPT ![c] = Some(Err(header_map.error))]
                /\ pc' = [pc EXCEPT ![c] = "done"]
                /\ UNCHANGED << request, fetches >>
    /\ UNCHANGED << accepted, constructed, qwant, fetched, parsed >>

\* fetch_html_from_upstream answers: the raw HTML, or RequestError
FetchHtmlFromUpstream(c, answer) ==
    /\ pc[c] = "fetching"
    /\ fetched' = [fetched EXCEPT ![c] = Some(answer)]
    /\ pc' = [pc EXCEPT ![c] = "fetched"]
    /\ UNCHANGED << accepted, constructed, qwant, args, request, fetches,
                    parsed, outcome >>

\* a variant in which the answer is kept in one place shared by the calls:
\* the resumed call reads the answer of another call when there is one
ResultsAnswerShared(c) ==
    IF \E d \in Calls \ {c} : fetched[d] # None
    THEN fetched[CHOOSE d \in Calls \ {c} : fetched[d] # None][1]
    ELSE fetched[c][1]

\* the answer the resumed call reads: its own
ResultsAnswer(c) == fetched[c][1]

\* results, lines 92-110: from the fetch's answer to the return
ResultsResume(c) ==
    /\ pc[c] = "fetched"
    /\ parsed' = [parsed EXCEPT ![c] = ResultsAnswer(c).ok]
    /\ outcome' = [outcome EXCEPT ![c] =
                     Some(ResultsAfterFetch(qwant, ResultsAnswer(c)))]
    /\ pc' = [pc EXCEPT ![c] = "done"]
    /\ UNCHANGED << accepted, constructed, qwant, args, request, fetches,
                    fetched >>

\* one results call, over the full inputs
Next ==
    \/ New
    \/ /\ pc[1] = "idle"
       /\ \E q \in Queries, p \in Pages, ua \in UserAgents, ss \in SafeSearchLevels :
             ResultsBegin(1, q, p, ua, ss)
    \/ /\ pc[1] = "fetching"
       /\ \E a \in Answers : FetchHtmlFromUpstream(1, a)
    \/ ResultsResume(1)

Spec == Init /\ [][Next]_vars

\* MaxCalls results calls sharing the adapter, interleaved at the fetch
NextConcurrent ==
    \/ New
    \/ \E c \in Calls :
          /\ pc[c] = "idle"
          /\ \E q \in Queries, p \in ConcurrentPages, ua \in ConcurrentUserAgents :
                ResultsBegin(c, q, p, ua, 0)
    \/ \E c \in Calls :
          /\ pc[c] = "fetching"
          /\ \E a \in ConcurrentAnswers : FetchHtmlFromUpstream(c, a)
    \/ \E c \in Calls : ResultsResume(c)

SpecConcurrent == Init /\ [][NextConcurrent]_vars

(***************************************************************************)
(* Vocabulary of the properties below.                                     *)
(***************************************************************************)
\* call c has returned
Returned(c) == pc[c] = "done" /\ outcome[c] # None

\* call c has returned and its fetch had answered with a document
ReturnedOnDocument(c) ==
    Returned(c) /\ fetched[c] # None /\ fetched[c][1].ok

FetchedDocument(c) == fetched[c][1].value

\* the item containers of the document call c fetched, in document order
ItemContainers(c) == Select(FetchedDocument(c), qwant.parser.results)

\* the no-result markers of the document call c fetched
NoResultMarkers(c) == Select(FetchedDocument(c), qwant.parser.no_result)

\* an item container holding a title, a link and a description element
WellFormed(e) ==
    /\ SelectIn(e, qwant.parser.result_title) # << >>
    /\ SelectIn(e, qwant.parser.result_url) # << >>
    /\ SelectIn(e, qwant.parser.result_desc) # << >>

\* the trimmed url of an item container that has a link element
UrlOf(e) == Trim(Head(SelectIn(e, qwant.parser.result_url)))

\* the record a well-formed item container stands for
RecordOf(e) ==
    [title |-> Trim(Head(SelectIn(e, qwant.parser.result_title))),
     url |-> UrlOf(e),
     description |-> Trim(Head(SelectIn(e, qwant.parser.result_desc))),
     engine |-> { <<"q", "w", "a", "n", "t">> }]

\* the number a text of decimal digits denotes
RECURSIVE DigitsValue(_)
DigitsValue(ds) ==
    IF ds = << >> THEN 0
    ELSE 10 * DigitsValue(SubSeq(ds, 1, Len(ds) - 1))
         + (CHOOSE d \in 0..9 : DigitChar[d + 1] = ds[Len(ds)])

(***************************************************************************)
(* C1.  When the fetch succeeds and the fetched document holds N >= 1      *)
(* well-formed item containers with pairwise distinct urls, results        *)
(* returns a mapping of exactly N records, one per container, each with    *)
(* trimmed title, url and description and the engine tag "qwant".          *)
(* The code does not do this: every item container is also matched by     *)
(* the no-result-marker selector, and results returns EmptyResultSet.      *)
(***************************************************************************)
C1_WellFormedItemsAllReturned ==
    \A c \in Calls :
        ( /\ ReturnedOnDocument(c)
          /\ Len(ItemContainers(c)) >= 1
          /\ \A i \in 1..Len(ItemContainers(c)) : WellFormed(ItemContainers(c)[i])
          /\ \A i, j \in 1..Len(ItemContainers(c)) :
                i # j => UrlOf(ItemContainers(c)[i]) # UrlOf(ItemContainers(c)[j]) )
        => /\ outcome[c][1].ok
           /\ Cardinality(DOMAIN outcome[c][1].value) = Len(ItemContainers(c))
           /\ \A i \in 1..Len(ItemContainers(c)) :
                 /\ UrlOf(ItemContainers(c)[i]) \in DOMAIN outcome[c][1].value
                 /\ outcome[c][1].value[UrlOf(ItemContainers(c)[i])]
                      = RecordOf(ItemContainers(c)[i])

(***************************************************************************)
(* C2.  Whenever the fetch succeeds and the fetched document holds at      *)
(* least one element matched by the no-result-marker selector, results     *)
(* returns the error EmptyResultSet and no mapping, whatever else the      *)
(* document holds.                                                         *)
(***************************************************************************)
C2_NoResultMarkerWins ==
    \A c \in Calls :
        (ReturnedOnDocument(c) /\ NoResultMarkers(c) # << >>)
        => outcome[c] = Some(Err("EmptyResultSet"))

\* a call has returned on a document that holds a marker next to other
\* markup and a complete item
C2_Witness ==
    \E c \in Calls :
        /\ ReturnedOnDocument(c)
        /\ NoResultMarkers(c) # << >>
        /\ \E i \in 1..Len(FetchedDocument(c)) : FetchedDocument(c)[i].matches = {}
        /\ \E i \in 1..Len(ItemContainers(c)) : WellFormed(ItemContainers(c)[i])
        /\ outcome[c] = Some(Err("EmptyResultSet"))

(***************************************************************************)
(* C3.  The url handed to the fetch is                                     *)
(* "https://www.qwant.com/?q=" query "&s=" p, where p is "1" when page is  *)
(* 0 or 1 and otherwise the decimal text of page: digits only, no leading  *)
(* zero, denoting page.                                                    *)
(***************************************************************************)
C3_RequestUrl ==
    \A c \in Calls :
        request[c] # None =>
            LET url == request[c][1].url
                query == args[c][1].query
                page == args[c][1].page
                head == <<"h","t","t","p","s",":","/","/","w","w","w",".","q","w","a","n","t",".","c","o","m","/","?","q","=">>
                        \o query \o <<"&", "s", "=">>
                p == SubSeq(url, Len(head) + 1, Len(url))
            IN  /\ Len(url) > Len(head)
                /\ SubSeq(url, 1, Len(head)) = head
                /\ \A i \in 1..Len(p) : \E d \in 1..10 : DigitChar[d] = p[i]
                /\ Len(p) > 1 => p[1] # "0"
                /\ DigitsValue(p) = (IF page \in {0, 1} THEN 1 ELSE page)

\* a request has been built for page 0, whose page parameter is 1
C3_Witness ==
    /\ request[1] # None
    /\ args[1][1].page = 0
    /\ request[1][1].url =
         <<"h","t","t","p","s",":","/","/","w","w","w",".","q","w","a","n","t",".","c","o","m","/","?","q","=","a"," ","b","&","s","=","1">>

(***************************************************************************)
(* C4.  Every results call invokes the fetch at most once; when the fetch  *)
(* fails the call returns that failure, RequestError, having parsed no     *)
(* document and having fetched exactly once.                               *)
(***************************************************************************)
C4_FetchFailurePropagates ==
    \A c \in Calls :
        /\ fetches[c] <= 1
        /\ (Returned(c) /\ fetched[c] # None /\ ~fetched[c][1].ok)
           => /\ outcome[c] = Some(Err("RequestError"))
              /\ outcome[c][1] = fetched[c][1]
              /\ ~parsed[c]
              /\ fetches[c] = 1

C4_Witness ==
    \E c \in Calls :
        /\ Returned(c)
        /\ fetched[c] = Some(Err("RequestError"))
        /\ fetches[c] = 1
        /\ outcome[c] = Some(Err("RequestError"))

(***************************************************************************)
(* C5.  Every record of a mapping returned by a successful results call    *)
(* has a non-empty url and is stored under that url.                       *)
(* C5_UrlNonEmpty holds, but only because SuccessfulMappingIsEmpty holds   *)
(* too: with the item-container selector equal to the no-result-marker     *)
(* selector no successful call returns any record, so the case the claim   *)
(* is about (an item whose link element is empty or whitespace-only        *)
(* reaching the returned mapping) never happens.  ResultsBuilder itself    *)
(* makes no check: ResultsBuilder(<<"t">>, <<" ">>, <<"d">>) is a record   *)
(* whose url is the empty text.                                            *)
(***************************************************************************)
C5_UrlNonEmpty ==
    \A c \in Calls :
        (Returned(c) /\ outcome[c][1].ok)
        => \A k \in DOMAIN outcome[c][1].value :
              k # << >> /\ outcome[c][1].value[k].url = k

SuccessfulMappingIsEmpty ==
    \A c \in Calls :
        (Returned(c) /\ outcome[c][1].ok) => outcome[c][1].value = << >>

(***************************************************************************)
(* C6.  When two item containers of the fetched document yield the same    *)
(* trimmed url, the returned mapping holds exactly one record under that   *)
(* url: the one built from the later of the containers.                    *)
(* The code does not do this: it returns EmptyResultSet (see C1).          *)
(***************************************************************************)
C6_DuplicateUrlLastWins ==
    \A c \in Calls :
        ReturnedOnDocument(c) =>
            \A i, j \in 1..Len(ItemContainers(c)) :
                ( /\ i < j
                  /\ WellFormed(ItemContainers(c)[i])
                  /\ WellFormed(ItemContainers(c)[j])
                  /\ UrlOf(ItemContainers(c)[i]) = UrlOf(ItemContainers(c)[j])
                  /\ \A k \in (j + 1)..Len(ItemContainers(c)) :
                        WellFormed(ItemContainers(c)[k])
                        => UrlOf(ItemContainers(c)[k]) # UrlOf(ItemContainers(c)[j]) )
                => /\ outcome[c][1].ok
                   /\ UrlOf(ItemContainers(c)[j]) \in DOMAIN outcome[c][1].value
                   /\ outcome[c][1].value[UrlOf(ItemContainers(c)[j])]
                        = RecordOf(ItemContainers(c)[j])

(***************************************************************************)
(* C7.  When an item container of the fetched document lacks its           *)
(* description, title or link element, results raises no error: the        *)
(* returned mapping holds the records of the well-formed items of the      *)
(* document and nothing for the malformed one.                             *)
(* The code does not do this: it returns EmptyResultSet (see C1).          *)
(***************************************************************************)
C7_MalformedItemOmitted ==
    \A c \in Calls :
        ( /\ ReturnedOnDocument(c)
          /\ \E i \in 1..Len(ItemContainers(c)) : ~WellFormed(ItemContainers(c)[i]) )
        => /\ outcome[c][1].ok
           /\ DOMAIN outcome[c][1].value =
                { UrlOf(ItemContainers(c)[i]) :
                    i \in { n \in 1..Len(ItemContainers(c)) :
                              WellFormed(ItemContainers(c)[n]) } }

(***************************************************************************)
(* C8.  The header map handed to the fetch holds exactly four headers,     *)
(* each once, under four different names: the caller's user-agent, the     *)
(* referer "https://google.com/", the content-type                         *)
(* "application/x-www-form-urlencoded" and the cookie                      *)
(* "ab_test_group=1; home=daily"; nothing else of the call enters it.      *)
(***************************************************************************)
C8_FourHeaders ==
    \A c \in Calls :
        request[c] # None =>
            LET h == request[c][1].header_map
            IN  /\ BagCardinality(h) = 4
                /\ \A e \in DOMAIN h : h[e] = 1
                /\ Cardinality({ e[1] : e \in DOMAIN h }) = 4
                /\ { e[2] : e \in DOMAIN h } =
                     { args[c][1].user_agent,
                       <<"h","t","t","p","s",":","/","/","g","o","o","g","l","e",".","c","o","m","/">>,
                       <<"a","p","p","l","i","c","a","t","i","o","n","/","x","-","w","w","w","-","f","o","r","m","-","u","r","l","e","n","c","o","d","e","d">>,
                       <<"a","b","_","t","e","s","t","_","g","r","o","u","p","=","1",";"," ","h","o","m","e","=","d","a","i","l","y">> }

\* a call with a non-zero safe-search level and a page other than the
\* first has handed its headers to the fetch
C8_Witness ==
    \E c \in Calls :
        /\ request[c] # None
        /\ args[c][1].safe_search # 0
        /\ args[c][1].page > 1
        /\ BagCardinality(request[c][1].header_map) = 4

(***************************************************************************)
(* C9.  While constructing there is no instance.  If one of the five       *)
(* selector strings does not parse, Qwant::new returns an error and there  *)
(* never is an instance; results runs only on an instance, all of whose    *)
(* selectors parsed; and an instance, once there, stays as it is.          *)
(***************************************************************************)
C9_State ==
    /\ constructed = None => qwant = NoInstance
    /\ constructed # None =>
          IF \E i \in 1..5 : QwantSelectors[i] \notin accepted
          THEN ~constructed[1].ok /\ qwant = NoInstance
          ELSE constructed[1].ok /\ qwant = constructed[1].value /\ qwant.instance
    /\ \A c \in Calls :
          pc[c] # "idle" =>
              /\ qwant.instance
              /\ { qwant.parser.results, qwant.parser.no_result,
                   qwant.parser.result_title, qwant.parser.result_url,
                   qwant.parser.result_desc } \subseteq accepted

C9_Stable == qwant.instance => qwant' = qwant

\* C9: in every state C9_State holds, and no step changes an instance
C9_ConstructingOrReady == []C9_State /\ [][C9_Stable]_vars

\* construction has failed on a selector string and left no instance
C9_Witness ==
    /\ constructed # None
    /\ ~constructed[1].ok
    /\ SelDesc \notin accepted
    /\ qwant = NoInstance

(***************************************************************************)
(* C10.  With several results calls in flight on one adapter, under every  *)
(* interleaving, the adapter's configuration is the one it was built       *)
(* with, and what a call hands to the fetch and what it returns are what   *)
(* the call alone would produce from its own arguments and the answer to   *)
(* its own fetch.                                                          *)
(***************************************************************************)
\* results run alone on arguments a, its fetch (if reached) answering f
ResultsAlone(a, f) ==
    IF ~ResultsHeaders(a.user_agent).ok
    THEN Err("UnexpectedError")
    ELSE ResultsAfterFetch(
             [instance |-> TRUE,
              parser |-> [results |-> "._2NDle nt3hI",
                          no_result |-> "._2NDle nt3hI",
                          result_title |-> "._35zId _3A7p7 RMB_d eoseI>a",
                          result_url |-> "._35zId _3A7p7 RMB_d eoseI>a",
                          result_desc |-> "._2-LMx XqdKF _1UMq0 _29nLp _3PXjk>span"]],
             f[1])

\* C10: the configuration is the constructed one, and every call's request
\* and outcome are those of the call run alone
C10_CallsIndependent ==
    /\ qwant.instance =>
          qwant.parser = [results |-> "._2NDle nt3hI",
                          no_result |-> "._2NDle nt3hI",
                          result_title |-> "._35zId _3A7p7 RMB_d eoseI>a",
                          result_url |-> "._35zId _3A7p7 RMB_d eoseI>a",
                          result_desc |-> "._2-LMx XqdKF _1UMq0 _29nLp _3PXjk>span"]
    /\ \A c \in Calls :
          /\ request[c] # None =>
                request[c][1] =
                    [url |-> ResultsUrl(args[c][1].query, args[c][1].page),
                     header_map |-> ResultsHeaders(args[c][1].user_agent).value]
          /\ Returned(c) => outcome[c][1] = ResultsAlone(args[c][1], fetched[c])

\* one call has returned while another, with other arguments and another
\* answer, is still to resume
C10_Witness ==
    \E c, d \in Calls :
        /\ c # d
        /\ Returned(c)
        /\ pc[d] = "fetched"
        /\ fetched[c] # None
        /\ fetched[c] # fetched[d]
        /\ args[c] # args[d]

=============================================================================
